---- MODULE Spec2Model ----
(***************************************************************************)
(* Model of update_feeds.py: the per-municipality collectors, the article  *)
(* text extraction, the paragraph builder, the RSS renderer and main().    *)
(*                                                                         *)
(* A text is a sequence of chunks (strings); where the code works on       *)
(* characters the chunks are single characters.  A URL is the sequence of  *)
(* its parts, so that base + href is sequence concatenation.               *)
(***************************************************************************)
EXTENDS Integers, Sequences, FiniteSets, TLC

VARIABLES pc, cidade, lidas, itens, retorno, buscas, falhas, listagens,
          arquivos, saida, relogio, arg, res

vars == <<pc, cidade, lidas, itens, retorno, buscas, falhas, listagens,
          arquivos, saida, relogio, arg, res>>

main_vars == <<cidade, lidas, itens, retorno, buscas, falhas, listagens,
               arquivos, saida, relogio>>

(***************************************************************************)
(* Bounds of the model.                                                    *)
(***************************************************************************)
\* anchors on the listing pages of a whole run of main(), all pages together
MaxAnchors == 3
\* anchors of the listing page when the run is followed up to the return of
\* the first collector whose listing page loads
MaxPagina == 6
\* length of the text handed to criar_paragrafos
MaxTexto == 7
\* length of the item list handed to gerar_xml
MaxItens == 2

(***************************************************************************)
(* Program constants.                                                      *)
(***************************************************************************)
\* itens_unicos[:5]
LIMITE == 5
\* criar_paragrafos(texto, max_chars = 900)
MAX_CHARS == 900

Min(a, b) == IF a < b THEN a ELSE b

(***************************************************************************)
(* Python string primitives, on sequences of characters.                   *)
(***************************************************************************)
\* what \s and str.strip() treat as white space (of the characters used here)
WS == {" ", "\n", "\r", "\t"}

RECURSIVE lstrip(_)
lstrip(s) ==
  IF s = <<>> THEN s
  ELSE IF Head(s) \in WS THEN lstrip(Tail(s)) ELSE s

RECURSIVE rstrip(_)
rstrip(s) ==
  IF s = <<>> THEN s
  ELSE IF s[Len(s)] \in WS THEN rstrip(SubSeq(s, 1, Len(s) - 1)) ELSE s

strip(s) == rstrip(lstrip(s))

\* " ".join(parts)
RECURSIVE join_espaco(_)
join_espaco(parts) ==
  IF parts = <<>> THEN <<>>
  ELSE IF Len(parts) = 1 THEN parts[1]
  ELSE parts[1] \o <<" ">> \o join_espaco(Tail(parts))

\* re.sub(r"\s+", " ", txt)
RECURSIVE sub_espacos(_)
sub_espacos(s) ==
  IF s = <<>> THEN <<>>
  ELSE IF Head(s) \in WS THEN <<" ">> \o sub_espacos(lstrip(s))
  ELSE <<Head(s)>> \o sub_espacos(Tail(s))

limpar_texto(txt) ==
  LET semquebra == [k \in DOMAIN txt |->
                      IF txt[k] \in {"\r", "\n"} THEN " " ELSE txt[k]]
  IN strip(sub_espacos(semquebra))

\* s.rsplit(".", 1)[0]
rsplit_ponto(s) ==
  LET pontos == {k \in DOMAIN s : s[k] = "."}
  IN IF pontos = {} THEN s
     ELSE SubSeq(s, 1, (CHOOSE k \in pontos : \A m \in pontos : m <= k) - 1)

\* re.split(r"(?<=[.!?])\s+", texto): resto is what is left to scan, atual the
\* piece being built
RECURSIVE split_frases(_, _)
split_frases(resto, atual) ==
  IF resto = <<>> THEN <<atual>>
  ELSE IF Head(resto) \in WS /\ atual # <<>> /\ atual[Len(atual)] \in {".", "!", "?"}
       THEN <<atual>> \o split_frases(lstrip(resto), <<>>)
       ELSE split_frases(Tail(resto), Append(atual, Head(resto)))

\* the loop "for f in frases" of criar_paragrafos
RECURSIVE agrupar(_, _, _, _)
agrupar(frases, blocos, bloco_atual, max_chars) ==
  IF frases = <<>> THEN [blocos |-> blocos, bloco_atual |-> bloco_atual]
  ELSE LET f == Head(frases)
       IN IF Len(bloco_atual) + Len(f) < max_chars \div 3
          THEN agrupar(Tail(frases), blocos,
                       bloco_atual \o (IF bloco_atual # <<>> THEN <<" ">> ELSE <<>>) \o f,
                       max_chars)
          ELSE agrupar(Tail(frases),
                       IF bloco_atual # <<>> THEN Append(blocos, strip(bloco_atual))
                                             ELSE blocos,
                       f, max_chars)

\* The result is the sequence of the <p>...</p> blocks that "\n\n".join puts
\* in the string, each block given by its text.
criar_paragrafos(texto, max_chars) ==
  LET limpo == limpar_texto(texto)
      t == IF Len(limpo) > max_chars
           THEN rsplit_ponto(SubSeq(limpo, 1, max_chars)) \o <<".">>
           ELSE limpo
      g == agrupar(split_frases(t, <<>>), <<>>, <<>>, max_chars)
      b1 == IF g.bloco_atual # <<>> THEN Append(g.blocos, strip(g.bloco_atual))
                                    ELSE g.blocos
      b2 == IF b1 = <<>> THEN <<t>> ELSE b1
      b3 == IF Len(b2) > 3 THEN SubSeq(b2, 1, 3) ELSE b2
      naovazio(b) == b # <<>>
  IN [k \in DOMAIN SelectSeq(b3, naovazio) |-> [p |-> SelectSeq(b3, naovazio)[k]]]

(***************************************************************************)
(* extrair_conteudo_generico.  The answer of requests.get for the article  *)
(* is resp: status "falha" (timeout, connection error or raise_for_status, *)
(* with the exception erro), or status "ok" with the page: container, the  *)
(* <p> texts of the first matching content container that has any (empty   *)
(* when there is none), and pagina, the <p> texts of the whole page.       *)
(***************************************************************************)
MsgFalha(e) ==
  <<"Nao foi possivel carregar o texto completo desta noticia. (", e, ")">>

MsgSemTexto == <<"Texto da noticia nao pode ser extraido automaticamente.">>

\* " ".join(p.get_text(" ", strip=True) for p in ps)
texto_de(ps) == join_espaco([k \in DOMAIN ps |-> strip(ps[k])])

\* variant: the except branch returns the text of the other failure
extrair_conteudo_troca_mensagem(resp) ==
  IF resp.status = "falha" THEN <<[p |-> MsgSemTexto]>>
  ELSE criar_paragrafos(texto_de(resp.container), MAX_CHARS)

extrair_conteudo_generico(resp) ==
  IF resp.status = "falha" THEN <<[p |-> MsgFalha(resp.erro)]>>
  ELSE LET t1 == IF resp.container # <<>> THEN texto_de(resp.container) ELSE <<>>
           texto == IF t1 = <<>> /\ resp.pagina # <<>> THEN texto_de(resp.pagina) ELSE t1
       IN IF texto = <<>> THEN <<[p |-> MsgSemTexto]>>
          ELSE criar_paragrafos(texto, MAX_CHARS)

(***************************************************************************)
(* gerar_xml.  The document is the sequence of its lines; a line has a     *)
(* tag, a kind (tipo) and the parts of its text: lit is text of the        *)
(* template, val a value the f-string inserts, as it is inserted.          *)
(***************************************************************************)
Lit(s) == [lit |-> s]
Val(x) == [val |-> x]
Linha(tag, tipo, partes) == [tag |-> tag, tipo |-> tipo, partes |-> partes]

\* datetime.utcnow().strftime("%a, %d %b %Y %H:%M:%S GMT") at clock reading t
strftime(t) == <<"%a, %d %b %Y %H:%M:%S GMT", ToString(t)>>

Cabecalho(cidade_nome, base_link_mtonline, agora) ==
  << Linha("?xml", "decl", <<Lit("version=1.0 encoding=UTF-8")>>),
     Linha("rss", "abre", <<Lit("version=2.0")>>),
     Linha("channel", "abre", <<>>),
     Linha("title", "texto", <<Lit("MT Online - Noticias de "), Val(cidade_nome)>>),
     Linha("link", "texto", <<Val(base_link_mtonline)>>),
     Linha("description", "texto",
           <<Lit("Principais noticias recentes de "), Val(cidade_nome),
             Lit(", compiladas automaticamente pelo sistema do MT Online.")>>),
     Linha("language", "texto", <<Lit("pt-BR")>>),
     Linha("pubDate", "texto", <<Val(agora)>>),
     Linha("lastBuildDate", "texto", <<Val(agora)>>),
     Linha("generator", "texto", <<Lit("MT Online + GitHub Actions")>>) >>

\* the body of "for item in itens"
ItemXml(item, agora) ==
  << Linha("item", "abre", <<>>),
     Linha("title", "texto", <<Val(item.titulo)>>),
     Linha("link", "texto", <<Val(item.link)>>),
     Linha("guid", "texto", <<Lit("isPermaLink=true"), Val(item.link)>>),
     Linha("pubDate", "texto",
           <<Val(IF "pubDate" \in DOMAIN item THEN item.pubDate ELSE agora)>>),
     Linha("description", "cdata", <<Val(item.descricao)>>),
     Linha("item", "fecha", <<>>) >>

\* variant: each item is put in front of the ones rendered before it
RECURSIVE ItensXml_invertido(_, _)
ItensXml_invertido(its, agora) ==
  IF its = <<>> THEN <<>>
  ELSE ItensXml_invertido(Tail(its), agora) \o ItemXml(Head(its), agora)

RECURSIVE ItensXml(_, _)
ItensXml(its, agora) ==
  IF its = <<>> THEN <<>>
  ELSE ItemXml(Head(its), agora) \o ItensXml(Tail(its), agora)

Rodape ==
  << Linha("channel", "fecha", <<>>), Linha("rss", "fecha", <<>>) >>

\* agora is the reading of the clock that gerar_xml takes
gerar_xml(cidade_nome, base_link_mtonline, its, agora) ==
  Cabecalho(cidade_nome, base_link_mtonline, agora) \o ItensXml(its, agora) \o Rodape

\* variant: the file is opened for appending
salvar_xml_append(fs, caminho, conteudo) == [fs EXCEPT ![caminho] = @ \o conteudo]

\* open(caminho, "w") and f.write(conteudo): fs is the file system
salvar_xml(fs, caminho, conteudo) == [fs EXCEPT ![caminho] = conteudo]

(***************************************************************************)
(* The collectors.  The four collectors are the same code but for the      *)
(* listing URL, the path segment looked for in href and the site's base.   *)
(***************************************************************************)
CIDADES ==
  << [nome |-> <<"Colider (MT)">>, rotulo |-> "Colider", arquivo |-> "colider.xml",
      base |-> "https://www.colider.mt.gov.br", segmento |-> "/Imprensa/Noticias/"],
     [nome |-> <<"Guaranta do Norte (MT)">>, rotulo |-> "Guaranta", arquivo |-> "guaranta.xml",
      base |-> "https://www.guarantadonorte.mt.gov.br", segmento |-> "/Noticias/"],
     [nome |-> <<"Peixoto de Azevedo (MT)">>, rotulo |-> "Peixoto", arquivo |-> "peixoto.xml",
      base |-> "https://www.peixotodeazevedo.mt.gov.br", segmento |-> "/noticias/"],
     [nome |-> <<"Alta Floresta (MT)">>, rotulo |-> "Alta Floresta", arquivo |-> "altafloresta.xml",
      base |-> "https://www.altafloresta.mt.gov.br", segmento |-> "/Noticias/"] >>

NumCidades == Len(CIDADES)

Arquivos == {CIDADES[c].arquivo : c \in 1..NumCidades}

base_mtonline == <<"https://www.mtonline.com.br">>

\* href.startswith("http"): the first part of the URL is a scheme and host
startswith_http(href) ==
  href # <<>> /\ Head(href) \in {CIDADES[c].base : c \in 1..NumCidades}

\* link = href if href.startswith("http") else base + href
Resolver(href, base) == IF startswith_http(href) THEN href ELSE <<base>> \o href

\* segmento in href and a.get_text(strip=True)
Qualifica(a, c) ==
  /\ \E k \in DOMAIN a.href : a.href[k] = CIDADES[c].segmento
  /\ strip(a.texto) # <<>>

\* the dict appended to itens for a qualifying anchor; resp is the answer of
\* the fetch of the article
NovoItem(a, c, resp) ==
  [titulo |-> limpar_texto(a.texto),
   link |-> Resolver(a.href, CIDADES[c].base),
   descricao |-> extrair_conteudo_generico(resp)]

\* variant: a later item with a link already seen replaces the earlier one
RECURSIVE RemoverDuplicados_substitui(_, _, _)
RemoverDuplicados_substitui(its, vistos, itens_unicos) ==
  IF its = <<>> THEN itens_unicos
  ELSE LET it == Head(its)
       IN IF it.link \notin vistos
          THEN RemoverDuplicados_substitui(Tail(its), vistos \cup {it.link},
                                           Append(itens_unicos, it))
          ELSE RemoverDuplicados_substitui(Tail(its), vistos,
                 [k \in DOMAIN itens_unicos |->
                    IF itens_unicos[k].link = it.link THEN it ELSE itens_unicos[k]])

\* the loop "for it in itens" with the set vistos
RECURSIVE RemoverDuplicados(_, _, _)
RemoverDuplicados(its, vistos, itens_unicos) ==
  IF its = <<>> THEN itens_unicos
  ELSE LET it == Head(its)
       IN IF it.link \notin vistos
          THEN RemoverDuplicados(Tail(its), vistos \cup {it.link}, Append(itens_unicos, it))
          ELSE RemoverDuplicados(Tail(its), vistos, itens_unicos)

\* variant: the slice is one short
Truncar_um_a_menos(itens_unicos) ==
  SubSeq(itens_unicos, 1, Min(LIMITE - 1, Len(itens_unicos)))

\* itens_unicos[:5]
Truncar(itens_unicos) == SubSeq(itens_unicos, 1, Min(LIMITE, Len(itens_unicos)))

(***************************************************************************)
(* Inputs: the anchors a listing page can hold and the answers of the      *)
(* article fetches.  A URL is only ever compared with other URLs of the    *)
(* same page, so the k-th distinct path of a page is named k.              *)
(***************************************************************************)
NumDistintos(its) == Cardinality({its[k].link : k \in DOMAIN its})

Ancoras(c, its) ==
  { [href |-> prefixo \o <<sec, ToString(n)>>, texto |-> t] :
      prefixo \in {<<>>, <<CIDADES[c].base>>},
      sec \in {CIDADES[c].segmento, "/Contato/"},
      n \in 1..(NumDistintos(its) + 1),
      t \in {<<" ">>, <<" ", "a", "\n">>} }

Respostas ==
  { [status |-> "falha", erro |-> "timeout"],
    [status |-> "ok", container |-> << <<"a", ".">> >>, pagina |-> << <<"a", ".">> >>] }

\* the feed a previous run left in the file of municipality c
ItemAntigo(c) ==
  [titulo |-> <<"antiga">>,
   link |-> <<CIDADES[c].base, CIDADES[c].segmento, "0">>,
   descricao |-> <<[p |-> <<"antiga", ".">>]>>]

ConteudoPrevio(c) == gerar_xml(CIDADES[c].nome, base_mtonline, <<ItemAntigo(c)>>, strftime(0))

(***************************************************************************)
(* main(): one try block per municipality.  pc is the position in the      *)
(* block of municipality cidade: "listar" before the fetch of the listing  *)
(* page, "ancoras" in the loop over the anchors, "gerar" after the         *)
(* collector returned; "fim" when main returned.                           *)
(***************************************************************************)
MainInit ==
  /\ cidade = 1
  /\ lidas = 0
  /\ itens = <<>>
  /\ retorno = <<>>
  /\ buscas = <<>>
  /\ falhas = {}
  /\ listagens = [c \in 1..NumCidades |-> 0]
  /\ arquivos = [f \in Arquivos |->
                   ConteudoPrevio(CHOOSE c \in 1..NumCidades : CIDADES[c].arquivo = f)]
  /\ saida = <<>>
  /\ relogio = 1

Init ==
  /\ pc = "listar"
  /\ MainInit
  /\ arg = <<>>
  /\ res = <<>>

\* where main goes on after the try block of municipality c, on both ways
\* out of it
Seguinte(c) ==
  [cidade |-> c + 1, pc |-> IF c < NumCidades THEN "listar" ELSE "fim"]

\* variant: the exception leaves main
Except_propaga(c) == [cidade |-> NumCidades + 1, pc |-> "fim"]

\* "except Exception as e: print(...)" of the try block of municipality c
Except(c) == Seguinte(c)

\* requests.get(url_lista) and raise_for_status() succeed
ListarOk ==
  /\ pc = "listar"
  /\ listagens' = [listagens EXCEPT ![cidade] = @ + 1]
  /\ pc' = "ancoras"
  /\ itens' = <<>>
  /\ buscas' = <<>>
  /\ UNCHANGED <<cidade, lidas, retorno, falhas, arquivos, saida, relogio, arg, res>>

\* requests.get(url_lista) or raise_for_status() raises: the except clause
\* of main prints the error
ListarFalha ==
  /\ pc = "listar"
  /\ listagens' = [listagens EXCEPT ![cidade] = @ + 1]
  /\ falhas' = falhas \cup {cidade}
  /\ saida' = Append(saida, <<"Erro em", CIDADES[cidade].rotulo>>)
  /\ pc' = Except(cidade).pc
  /\ cidade' = Except(cidade).cidade
  /\ UNCHANGED <<lidas, itens, retorno, buscas, arquivos, relogio, arg, res>>

\* one iteration of "for a in soup.find_all('a', href=True)"; lidas counts the
\* anchors read since main started, lim bounds it, and respostas are the
\* answers the fetch of the article can get
ProcessarAncora(lim, respostas) ==
  /\ pc = "ancoras"
  /\ lidas < lim
  /\ \E a \in Ancoras(cidade, itens) :
       IF Qualifica(a, cidade)
       THEN \E resp \in respostas :
              /\ itens' = Append(itens, NovoItem(a, cidade, resp))
              /\ buscas' = Append(buscas, [link |-> Resolver(a.href, CIDADES[cidade].base),
                                           ok |-> resp.status = "ok"])
       ELSE UNCHANGED <<itens, buscas>>
  /\ lidas' = lidas + 1
  /\ UNCHANGED <<pc, cidade, retorno, falhas, listagens, arquivos, saida, relogio, arg, res>>

\* the anchors are exhausted: duplicates removed, return itens_unicos[:5]
Retornar ==
  /\ pc = "ancoras"
  /\ retorno' = Truncar(RemoverDuplicados(itens, {}, <<>>))
  /\ pc' = "gerar"
  /\ UNCHANGED <<cidade, lidas, itens, buscas, falhas, listagens, arquivos, saida, relogio, arg, res>>

\* xml = gerar_xml(...); salvar_xml(...); print("Atualizado ..."); the try
\* block is left and the collector's results are not used again
Gravar ==
  /\ pc = "gerar"
  /\ arquivos' = salvar_xml(arquivos, CIDADES[cidade].arquivo,
                            gerar_xml(CIDADES[cidade].nome, base_mtonline, retorno,
                                      strftime(relogio)))
  /\ relogio' = relogio + 1
  /\ saida' = Append(saida, <<"Atualizado", CIDADES[cidade].arquivo>>)
  /\ pc' = Seguinte(cidade).pc
  /\ cidade' = Seguinte(cidade).cidade
  /\ itens' = <<>>
  /\ retorno' = <<>>
  /\ buscas' = <<>>
  /\ UNCHANGED <<lidas, falhas, listagens, arg, res>>

Ancora == ProcessarAncora(MaxAnchors, Respostas)

Next == ListarOk \/ ListarFalha \/ Ancora \/ Retornar \/ Gravar

Spec == Init /\ [][Next]_vars

(***************************************************************************)
(* The run followed up to the return of the first collector whose listing  *)
(* page loads, on a listing page of up to MaxPagina anchors all of whose   *)
(* articles load.                                                          *)
(***************************************************************************)
RespostasOk == {resp \in Respostas : resp.status = "ok"}

AncoraPagina == ProcessarAncora(MaxPagina, RespostasOk)

NextColetor == ListarOk \/ ListarFalha \/ AncoraPagina \/ Retornar

SpecColetor == Init /\ [][NextColetor]_vars

(***************************************************************************)
(* criar_paragrafos as a function: called once on a text of at most        *)
(* MaxTexto characters.  max_chars is the function's parameter; the values *)
(* drawn make the cut at max_chars, the block limit max_chars // 3 and the *)
(* cut at three blocks happen within MaxTexto characters.                  *)
(***************************************************************************)
Alfabeto == {"a", ".", " "}

Textos == UNION {[1..n -> Alfabeto] : n \in 0..MaxTexto}

InitParagrafos ==
  /\ pc = "chamar"
  /\ MainInit
  /\ arg \in [texto : Textos, max_chars : {3, 8}]
  /\ res = <<>>

ChamarParagrafos ==
  /\ pc = "chamar"
  /\ res' = criar_paragrafos(arg.texto, arg.max_chars)
  /\ pc' = "retornou"
  /\ UNCHANGED <<main_vars, arg>>

NextParagrafos == ChamarParagrafos

SpecParagrafos == InitParagrafos /\ [][NextParagrafos]_vars

(***************************************************************************)
(* gerar_xml as a function: called once on a list of at most MaxItens      *)
(* items, with and without the optional key pubDate.                       *)
(***************************************************************************)
ItensEntrada ==
  LET semdata == [titulo : {<<"a">>, <<"b", "&", "c">>},
                  link : {<<"u">>, <<"v", "<", "w">>},
                  descricao : {<<[p |-> <<"d">>]>>}]
  IN semdata \cup
     {[titulo |-> it.titulo, link |-> it.link, descricao |-> it.descricao,
       pubDate |-> strftime(0)] : it \in semdata}

ListasEntrada == UNION {[1..n -> ItensEntrada] : n \in 0..MaxItens}

InitXml ==
  /\ pc = "chamar"
  /\ MainInit
  /\ arg \in [cidade_nome : {CIDADES[1].nome, <<"X", "&", "Y">>},
              itens : ListasEntrada,
              agora : {strftime(1)}]
  /\ res = <<>>

ChamarXml ==
  /\ pc = "chamar"
  /\ res' = gerar_xml(arg.cidade_nome, base_mtonline, arg.itens, arg.agora)
  /\ pc' = "retornou"
  /\ UNCHANGED <<main_vars, arg>>

NextXml == ChamarXml

SpecXml == InitXml /\ [][NextXml]_vars

(***************************************************************************)
(* Reading a document back: the items of a rendered document, in document  *)
(* order, each with the values of its lines.                               *)
(***************************************************************************)
AbreItem(doc) == {q \in DOMAIN doc : doc[q].tag = "item" /\ doc[q].tipo = "abre"}

FechaItem(doc) == {q \in DOMAIN doc : doc[q].tag = "item" /\ doc[q].tipo = "fecha"}

\* the position of the k-th <item> line of doc
PosItem(doc, k) ==
  CHOOSE q \in AbreItem(doc) : Cardinality({r \in AbreItem(doc) : r < q}) = k - 1

\* the lines with the given tag inside the k-th item of doc
LinhasDe(doc, k, tag) ==
  LET a == PosItem(doc, k)
      f == CHOOSE q \in FechaItem(doc) :
             q > a /\ \A r \in FechaItem(doc) : r > a => q <= r
  IN {q \in (a + 1)..(f - 1) : doc[q].tag = tag}

\* the value of the only line with the given tag inside the k-th item
ValorDe(doc, k, tag) ==
  LET l == doc[CHOOSE q \in LinhasDe(doc, k, tag) : TRUE]
  IN l.partes[Len(l.partes)].val

ItemDoc(doc, k) ==
  [titulo |-> ValorDe(doc, k, "title"), link |-> ValorDe(doc, k, "link"),
   guid |-> ValorDe(doc, k, "guid"), descricao |-> ValorDe(doc, k, "description")]

\* the k-th item of doc is complete: one line of each kind
ItemCompleto(doc, k) ==
  \A tag \in {"title", "link", "guid", "description", "pubDate"} :
     Cardinality(LinhasDe(doc, k, tag)) = 1

\* a description built by the except branch of extrair_conteudo_generico
EhDescricaoDeFalha(d) == \E e \in {"timeout"} : d = <<[p |-> MsgFalha(e)]>>

\* the positions in its of the first item of each link, and the k-th of them
Primeiros(its) ==
  {k \in DOMAIN its : \A j \in 1..(k - 1) : its[j].link # its[k].link}

PrimeiroDe(its, l) == CHOOSE k \in Primeiros(its) : its[k].link = l

Kesimo(its, k) ==
  CHOOSE q \in Primeiros(its) : Cardinality({r \in Primeiros(its) : r < q}) = k - 1

ArquivoAtual == CIDADES[cidade].arquivo

(***************************************************************************)
(* The claims.                                                             *)
(***************************************************************************)

\* C1 (as claimed): when the collector of a municipality returned no item,
\* the write step leaves the municipality's file as it was before the run.
C1_SemItensNaoGrava ==
  [][(pc = "gerar" /\ retorno = <<>>) => arquivos'[ArquivoAtual] = arquivos[ArquivoAtual]]_vars

\* C2: a municipality whose listing fetch failed keeps its file as it was,
\* has its error printed, was fetched once only (no retry), and when main
\* has returned the listing page of every municipality has been fetched,
\* whichever municipalities failed.
C2_IsolamentoListagem ==
  /\ \A c \in falhas :
       /\ arquivos[CIDADES[c].arquivo] = ConteudoPrevio(c)
       /\ listagens[c] = 1
       /\ \E k \in DOMAIN saida : saida[k] = <<"Erro em", CIDADES[c].rotulo>>
  /\ \A c \in 1..NumCidades : listagens[c] <= 1
  /\ pc = "fim" => \A c \in 1..NumCidades : listagens[c] = 1
  /\ pc = "fim" => Len(saida) = NumCidades

\* C2 witness: main returned after the listings of Colider and Peixoto
\* failed and the feed of Guaranta was written
C2_Witness ==
  /\ pc = "fim"
  /\ falhas = {1, 3}
  /\ arquivos["guaranta.xml"] # ConteudoPrevio(2)

C4_SemDuplicados ==
  pc = "gerar" =>
    /\ \A j, k \in DOMAIN retorno : j # k => retorno[j].link # retorno[k].link
    /\ \A j \in DOMAIN retorno :
          /\ \E k \in DOMAIN itens : itens[k].link = retorno[j].link
          /\ retorno[j] = itens[PrimeiroDe(itens, retorno[j].link)]
    /\ \A j, k \in DOMAIN retorno :
          j < k => PrimeiroDe(itens, retorno[j].link) < PrimeiroDe(itens, retorno[k].link)

\* C4 witness: a collector returned from a page on which a link came twice,
\* with different items, before the first anchor of another link
C4_Witness ==
  /\ pc = "gerar"
  /\ Len(itens) >= 3
  /\ itens[1].link = itens[2].link
  /\ itens[1] # itens[2]
  /\ itens[3].link # itens[1].link
  /\ Len(retorno) = 2

\* C5 (as claimed): a collector returns min(10, number of distinct links)
\* items, the first ones of the first-seen sequence.
C5_LimiteDez ==
  pc = "gerar" =>
    /\ Len(retorno) = Min(10, Cardinality(Primeiros(itens)))
    /\ \A k \in DOMAIN retorno : retorno[k] = itens[Kesimo(itens, k)]

\* C5 (amended): a collector returns min(5, number of distinct links) items,
\* the first ones of the first-seen sequence.
C5_LimiteCinco ==
  pc = "gerar" =>
    /\ Len(retorno) = Min(5, Cardinality(Primeiros(itens)))
    /\ \A k \in DOMAIN retorno : retorno[k] = itens[Kesimo(itens, k)]

\* C5 witness: a collector returned from a page with more distinct links
\* than it returns
C5_Witness ==
  /\ pc = "gerar"
  /\ Cardinality(Primeiros(itens)) = 6
  /\ Len(retorno) = 5

\* C6 (as claimed): article fetches come after the listing fetch and a
\* municipality's run issues no more of them than the collector's bound on
\* the items it returns.
C6_BuscasLimitadas ==
  /\ Len(buscas) > 0 => listagens[cidade] = 1
  /\ Len(buscas) <= LIMITE

\* C7: the rendered document has one item per input item, in the input
\* order, each complete and with the title, the link, a guid equal to the
\* link and the description of its input item.
C7_OrdemDosItens ==
  pc = "retornou" =>
    /\ Cardinality(AbreItem(res)) = Len(arg.itens)
    /\ Cardinality(FechaItem(res)) = Len(arg.itens)
    /\ \A k \in DOMAIN arg.itens :
          /\ ItemCompleto(res, k)
          /\ ItemDoc(res, k) = [titulo |-> arg.itens[k].titulo,
                                link |-> arg.itens[k].link,
                                guid |-> arg.itens[k].link,
                                descricao |-> arg.itens[k].descricao]

\* C7 witness: a list of two items that differ in title and link was rendered
C7_Witness ==
  /\ pc = "retornou"
  /\ Len(arg.itens) = 2
  /\ arg.itens[1].titulo # arg.itens[2].titulo
  /\ arg.itens[1].link # arg.itens[2].link
  /\ Len(res) > 0

\* C8 (as claimed): outside CDATA no inserted value of the rendered document
\* holds a raw &, <, > or ".
C8_Escapado ==
  pc = "retornou" =>
    \A q \in DOMAIN res :
       res[q].tipo = "texto" =>
          \A r \in DOMAIN res[q].partes :
             "val" \in DOMAIN res[q].partes[r] =>
                \A m \in DOMAIN res[q].partes[r].val :
                   res[q].partes[r].val[m] \notin {"&", "<", ">", "\""}

\* C9: a step changes no file but the one of the municipality being
\* processed, and the new content of that file is the rendering of the items
\* the collector returned in this run and nothing else.
C9_ArquivosIndependentes ==
  [][\A f \in Arquivos :
        arquivos'[f] # arquivos[f] =>
           /\ pc = "gerar"
           /\ f = ArquivoAtual
           /\ Cardinality(AbreItem(arquivos'[f])) = Len(retorno)
           /\ \A k \in DOMAIN retorno :
                 ItemDoc(arquivos'[f], k) = [titulo |-> retorno[k].titulo,
                                             link |-> retorno[k].link,
                                             guid |-> retorno[k].link,
                                             descricao |-> retorno[k].descricao]
           /\ arquivos'[f] = gerar_xml(CIDADES[cidade].nome, base_mtonline, retorno,
                                       strftime(relogio))]_vars

\* C9 witness: the feed of Guaranta was written with an item while the files
\* of the municipalities before and after it are as they were
C9_Witness ==
  /\ pc = "fim"
  /\ Cardinality(AbreItem(arquivos["guaranta.xml"])) = 1
  /\ ItemDoc(arquivos["guaranta.xml"], 1).link # ItemAntigo(2).link
  /\ arquivos["colider.xml"] = ConteudoPrevio(1)
  /\ arquivos["peixoto.xml"] = ConteudoPrevio(3)

\* C10 (as claimed): criar_paragrafos returns at least 1 and at most 3
\* <p> blocks.
C10_UmATresParagrafos ==
  pc = "retornou" => (Len(res) >= 1 /\ Len(res) <= 3)

====
